---- MODULE Spec2Model ----
(***************************************************************************)
(* The incremental DOM annotation engine of poe2-mobalytics-translator.     *)
(*                                                                         *)
(* A text is a sequence of characters (one-character strings).  A CJK       *)
(* glyph of a translation is written as one character in braces, "{huo}":   *)
(* like every non-ASCII character it is not a word character of the         *)
(* regular expressions of the engine.                                       *)
(***************************************************************************)
EXTENDS Integers, Sequences, FiniteSets, TLC

----------------------------------------------------------------------------
(* Strings *)

Letters == {"a","b","c","d","e","f","g","h","i","j","k","l","m","n","o","p","q",
            "r","s","t","u","v","w","x","y","z",
            "A","B","C","D","E","F","G","H","I","J","K","L","M","N","O","P","Q",
            "R","S","T","U","V","W","X","Y","Z"}

Digits == {"0","1","2","3","4","5","6","7","8","9"}

\* \w of a JavaScript regular expression without the u flag
WordChars == Letters \cup Digits \cup {"_"}

\* the character class [\d.\-()] a placeholder '#' compiles to
NumChars == Digits \cup {".", "-", "(", ")"}

\* the character class [+\-] of the leading sign group
SignChars == {"+", "-"}

UpperSeq == <<"A","B","C","D","E","F","G","H","I","J","K","L","M","N","O","P","Q",
              "R","S","T","U","V","W","X","Y","Z">>

LowerSeq == <<"a","b","c","d","e","f","g","h","i","j","k","l","m","n","o","p","q",
              "r","s","t","u","v","w","x","y","z">>

\* no case folding: a pattern compiled without the 'i' flag
Lower_exact(c) == c

\* case folding of the 'i' flag
Lower(c) ==
  IF \E i \in 1..26 : UpperSeq[i] = c
  THEN LowerSeq[CHOOSE i \in 1..26 : UpperSeq[i] = c]
  ELSE c

\* String.prototype.trim
RECURSIVE TrimLeft(_)
TrimLeft(s) == IF s # <<>> /\ Head(s) = " " THEN TrimLeft(Tail(s)) ELSE s

RECURSIVE TrimRight(_)
TrimRight(s) ==
  IF s # <<>> /\ s[Len(s)] = " " THEN TrimRight(SubSeq(s, 1, Len(s) - 1)) ELSE s

Trim(s) == TrimRight(TrimLeft(s))

\* s starts with sub at position i (1-based)
MatchAt(s, sub, i) ==
  /\ i >= 1
  /\ i + Len(sub) - 1 <= Len(s)
  /\ SubSeq(s, i, i + Len(sub) - 1) = sub

\* String.prototype.includes
Includes(s, sub) == \E i \in 1..(Len(s) + 1) : MatchAt(s, sub, i)

\* the assertion \b between s[i-1] and s[i]
IsBoundary(s, i) ==
  LET before == i > 1 /\ i - 1 <= Len(s) /\ s[i - 1] \in WordChars
      after  == i >= 1 /\ i <= Len(s) /\ s[i] \in WordChars
  IN  before # after

\* the pattern <en> without the two assertions \b
WordMatchAt_anywhere(s, en, i) == MatchAt(s, en, i)

\* the regular expression \b<en>\b matches s at position i
WordMatchAt(s, en, i) ==
  /\ MatchAt(s, en, i)
  /\ IsBoundary(s, i)
  /\ IsBoundary(s, i + Len(en))

\* RegExp.prototype.test of /\b<en>\b/g from lastIndex 0
WordTest(s, en) == \E i \in 1..Len(s) : WordMatchAt(s, en, i)

\* s.replace(new RegExp(`\\b${en}\\b`, 'g'), zh): every match, left to right
RECURSIVE ReplaceFrom(_, _, _, _)
ReplaceFrom(s, en, zh, i) ==
  IF i > Len(s) THEN <<>>
  ELSE IF en # <<>> /\ WordMatchAt(s, en, i)
       THEN zh \o ReplaceFrom(s, en, zh, i + Len(en))
       ELSE <<s[i]>> \o ReplaceFrom(s, en, zh, i + 1)

ReplaceWord(s, en, zh) == ReplaceFrom(s, en, zh, 1)

\* the nesting of the parentheses of a pattern after its first i - 1
\* characters, -1 once a group was closed that was never opened
RECURSIVE ParenDepth(_, _, _)
ParenDepth(src, i, depth) ==
  IF depth < 0 \/ i > Len(src) THEN depth
  ELSE ParenDepth(src, i + 1,
                  IF src[i] = "(" THEN depth + 1
                  ELSE IF src[i] = ")" THEN depth - 1
                  ELSE depth)

\* new RegExp(`\\b${en}\\b`, 'g') with en taken as it is: a SyntaxError when
\* the parentheses of en do not pair ("Unterminated group", "Unmatched ')'")
\* or a quantifier follows the assertion \b ("Nothing to repeat").  A key
\* of letters, digits and spaces stands for itself.
RegExpThrows(en) ==
  \/ ParenDepth(en, 1, 0) # 0
  \/ en # <<>> /\ en[1] \in {"+", "*", "?"}


----------------------------------------------------------------------------
(* Template Compiler *)

NoMatch == [ok |-> FALSE, caps |-> <<>>]

\* the longest run of placeholder characters of txt from position j
RECURSIVE NumRun(_, _)
NumRun(txt, j) ==
  IF j <= Len(txt) /\ txt[j] \in NumChars THEN 1 + NumRun(txt, j + 1) ELSE 0

\* The backtracking match of a compiled pattern from its piece p against txt
\* from position j, up to the anchor '$'.  A piece is a literal character
\* (compared under the 'i' flag) or the greedy group ([\d.\-()]+), written "#".
RECURSIVE MatchPieces(_, _, _, _)
RECURSIVE MatchGroup(_, _, _, _, _)
MatchPieces(pieces, p, txt, j) ==
  IF p > Len(pieces)
  THEN IF j = Len(txt) + 1 THEN [ok |-> TRUE, caps |-> <<>>] ELSE NoMatch
  ELSE IF pieces[p] = "#"
       THEN MatchGroup(pieces, p, txt, j, NumRun(txt, j))
       ELSE IF j <= Len(txt) /\ Lower(txt[j]) = Lower(pieces[p])
            THEN MatchPieces(pieces, p + 1, txt, j + 1)
            ELSE NoMatch

\* the group takes n characters, then fewer (greedy, backtracking)
MatchGroup(pieces, p, txt, j, n) ==
  IF n < 1 THEN NoMatch
  ELSE LET rest == MatchPieces(pieces, p + 1, txt, j + n)
       IN  IF rest.ok
           THEN [ok |-> TRUE, caps |-> <<SubSeq(txt, j, j + n - 1)>> \o rest.caps]
           ELSE MatchGroup(pieces, p, txt, j, n - 1)

\* txt.match(regex) for regex = '^([+\-]?)' + pieces + '$': caps[1] is the sign
\* group (match[1]), the rest are the placeholder groups (match.slice(2))
RegexMatch(pieces, txt) ==
  LET signed == IF txt # <<>> /\ Head(txt) \in SignChars
                THEN MatchPieces(pieces, 1, txt, 2)
                ELSE NoMatch
      plain  == MatchPieces(pieces, 1, txt, 1)
  IN  IF signed.ok THEN [ok |-> TRUE, caps |-> <<<<Head(txt)>>>> \o signed.caps]
      ELSE IF plain.ok THEN [ok |-> TRUE, caps |-> <<<<>>>> \o plain.caps]
      ELSE NoMatch

\* compileTemplates: one matcher per entry of the template map, in the order
\* of Object.entries; escaping makes every character but '#' a literal
compileTemplates(templateMap) ==
  [i \in 1..Len(templateMap) |->
     [regex |-> templateMap[i][1], translation |-> templateMap[i][2]]]

\* result.replace('#', val): the first '#' only
RECURSIVE ReplaceFirstHash(_, _)
ReplaceFirstHash(result, val) ==
  IF result = <<>> THEN <<>>
  ELSE IF Head(result) = "#" THEN val \o Tail(result)
       ELSE <<Head(result)>> \o ReplaceFirstHash(Tail(result), val)

\* match.slice(2).forEach(val => result = result.replace('#', val))
RECURSIVE SubstituteCaps(_, _)
SubstituteCaps(result, vals) ==
  IF vals = <<>> THEN result
  ELSE SubstituteCaps(ReplaceFirstHash(result, Head(vals)), Tail(vals))

\* the text a matcher would write without match[1]
TemplateOutput_unsigned(translation, caps) == SubstituteCaps(translation, Tail(caps))

\* the text a matcher writes: (match[1] || '') + result
TemplateOutput(translation, caps) ==
  caps[1] \o SubstituteCaps(translation, Tail(caps))

\* the index of the last matcher that matches txt, or 0
FirstMatcher_last(compiled, txt, i) ==
  LET found == {k \in i..Len(compiled) : RegexMatch(compiled[k].regex, txt).ok}
  IN  IF found = {} THEN 0 ELSE CHOOSE k \in found : \A j \in found : j <= k

\* the index of the first matcher that matches txt, or 0
RECURSIVE FirstMatcher(_, _, _)
FirstMatcher(compiled, txt, i) ==
  IF i > Len(compiled) THEN 0
  ELSE IF RegexMatch(compiled[i].regex, txt).ok THEN i
       ELSE FirstMatcher(compiled, txt, i + 1)

----------------------------------------------------------------------------
(* The document: a function from node identities to nodes.  An element has  *)
(* a tag, a set of attribute facts the selectors read, its alt attribute     *)
(* and the sequence of its children; a text node has its value.              *)

Body == 1

ElementNode(tag, attrs, alt, kids) ==
  [kind |-> "element", tag |-> tag, attrs |-> attrs, alt |-> alt,
   kids |-> kids, val |-> <<>>]

TextNode(val) ==
  [kind |-> "text", tag |-> "#text", attrs |-> {}, alt |-> <<>>,
   kids |-> <<>>, val |-> val]

SeqToSet(q) == {q[i] : i \in 1..Len(q)}

IsElement(d, n) == n \in DOMAIN d /\ d[n].kind = "element"

IsTextNode(d, n) == n \in DOMAIN d /\ d[n].kind = "text"

\* Node.parentElement, 0 for none
ParentOf(d, n) ==
  IF \E p \in DOMAIN d : n \in SeqToSet(d[p].kids)
  THEN CHOOSE p \in DOMAIN d : n \in SeqToSet(d[p].kids)
  ELSE 0

\* n and its ancestors, nearest first (Element.closest walks this chain)
RECURSIVE Chain(_, _)
Chain(d, n) == IF n = 0 THEN <<>> ELSE <<n>> \o Chain(d, ParentOf(d, n))

\* the nodes under root in document order, root first
RECURSIVE Preorder(_, _)
RECURSIVE PreorderAll(_, _)
Preorder(d, root) == <<root>> \o PreorderAll(d, d[root].kids)

PreorderAll(d, kids) ==
  IF kids = <<>> THEN <<>>
  ELSE Preorder(d, Head(kids)) \o PreorderAll(d, Tail(kids))

\* the nodes attached to the document body
Attached(d) == SeqToSet(Preorder(d, Body))

\* Node.textContent of an element or a text node
RECURSIVE TextContent(_, _)
RECURSIVE TextOfAll(_, _)
TextContent(d, n) ==
  IF d[n].kind = "text" THEN d[n].val ELSE TextOfAll(d, d[n].kids)

TextOfAll(d, kids) ==
  IF kids = <<>> THEN <<>>
  ELSE TextContent(d, Head(kids)) \o TextOfAll(d, Tail(kids))

\* the identity of a node created now: one no node of the document has
Fresh(d) == CHOOSE i \in 1..(Cardinality(DOMAIN d) + 1) :
              /\ i \notin DOMAIN d
              /\ \A j \in 1..(i - 1) : j \in DOMAIN d

\* el.textContent = s: every child is removed; a text node is added unless s
\* is empty.  The removed children stay alive while a handler holds them.
SetTextContent(d, el, s) ==
  IF s = <<>> THEN [d EXCEPT ![el].kids = <<>>]
  ELSE LET t == Fresh(d)
       IN  [d EXCEPT ![el].kids = <<t>>] @@ (t :> TextNode(s))

\* node.nodeValue = s
SetNodeValue(d, n, s) == [d EXCEPT ![n].val = s]

\* el.setAttribute('alt', s)
SetAlt(d, el, s) == [d EXCEPT ![el].alt = s, ![el].attrs = @ \cup {"alt"}]

\* el.textContent = s changes the child list unless there was no child and s
\* is empty
ChangesChildList(d, el, s) == d[el].kids # <<>> \/ s # <<>>

\* nodes no longer reachable are collected, and a WeakSet forgets them
Collect(d) == [n \in Attached(d) |-> d[n]]

----------------------------------------------------------------------------
(* Selectors *)

HasFact(d, n, a) == a \in d[n].attrs

\* n has a proper ancestor that carries the attribute fact a
Under(d, n, a) ==
  \E i \in 2..Len(Chain(d, n)) : HasFact(d, Chain(d, n)[i], a)

\* n has a proper ancestor with the tag
UnderTag(d, n, tag) ==
  \E i \in 2..Len(Chain(d, n)) : d[Chain(d, n)[i]].tag = tag

\* n is in a foreign editable region: it or an ancestor carries a mark of
\* the Lexical editor
InEditable(d, n) ==
  \E i \in 1..Len(Chain(d, n)) :
    d[Chain(d, n)[i]].attrs
      \cap {"data-lexical-editor", "data-lexical-decorator", "data-lexical-text=true"} # {}

\* Element.matches for the selectors the engine uses
Matches(d, n, sel) ==
  /\ IsElement(d, n)
  /\ CASE sel = "[data-tippy-root] p" ->
            d[n].tag = "p" /\ Under(d, n, "data-tippy-root")
       [] sel = "[data-tippy-root] span" ->
            d[n].tag = "span" /\ Under(d, n, "data-tippy-root")
       [] sel = "p.x2fl5vp.x1g1qkmr" ->
            d[n].tag = "p" /\ HasFact(d, n, ".x2fl5vp") /\ HasFact(d, n, ".x1g1qkmr")
       [] sel = "p[data-test=skill-name]" ->
            d[n].tag = "p" /\ HasFact(d, n, "data-test=skill-name")
       [] sel = "img[alt]" -> d[n].tag = "img" /\ HasFact(d, n, "alt")
       [] sel = "img.skill-icon" -> d[n].tag = "img" /\ HasFact(d, n, ".skill-icon")
       [] sel = "span.x5qbwci.xggjnk3" ->
            d[n].tag = "span" /\ HasFact(d, n, ".x5qbwci") /\ HasFact(d, n, ".xggjnk3")
       [] sel = "span.skill-name" -> d[n].tag = "span" /\ HasFact(d, n, ".skill-name")
       [] sel = "p.x1cabzks" -> d[n].tag = "p" /\ HasFact(d, n, ".x1cabzks")
       [] sel = "ul li" -> d[n].tag = "li" /\ UnderTag(d, n, "ul")
       [] sel = "p, span, li" -> d[n].tag \in {"p", "span", "li"}
       [] sel = "div, span, p" -> d[n].tag \in {"div", "span", "p"}
       [] sel = "[data-tippy-root] span, [data-tippy-root] div" ->
            d[n].tag \in {"span", "div"} /\ Under(d, n, "data-tippy-root")
       [] sel = "img[src*=triangle-], span[style*=triangle-]" ->
            d[n].tag \in {"img", "span"}
            /\ (HasFact(d, n, "triangle-down.svg") \/ HasFact(d, n, "triangle-up.svg"))
       [] sel = "img[width=40], img[height=40], img[src*=SupportGem]" ->
            d[n].tag = "img"
            /\ (HasFact(d, n, "width=40") \/ HasFact(d, n, "height=40")
                \/ HasFact(d, n, "SupportGem"))
       [] sel = "[data-lexical-editor], [data-lexical-decorator]" ->
            HasFact(d, n, "data-lexical-editor") \/ HasFact(d, n, "data-lexical-decorator")
       [] OTHER -> FALSE

\* document.querySelectorAll(sel): a static list in document order
querySelectorAll(d, sel) ==
  SelectSeq(Preorder(d, Body), LAMBDA n : Matches(d, n, sel))

\* root.querySelector(sel): the first descendant of root that matches, or 0
querySelector(d, root, sel) ==
  LET found == SelectSeq(Tail(Preorder(d, root)), LAMBDA n : Matches(d, n, sel))
  IN  IF found = <<>> THEN 0 ELSE Head(found)

\* el.closest(sel): el or its nearest ancestor that matches, or 0
closest(d, el, sel) ==
  LET found == SelectSeq(Chain(d, el), LAMBDA n : Matches(d, n, sel))
  IN  IF found = <<>> THEN 0 ELSE Head(found)

\* el.closest('div')
closestDiv(d, el) ==
  LET found == SelectSeq(Chain(d, el), LAMBDA n : d[n].tag = "div")
  IN  IF found = <<>> THEN 0 ELSE Head(found)

\* the matches of the selector at place i alone, whether it has any or not
multiQueryFrom_first(d, selectors, i, queried) ==
  IF i > Len(selectors) THEN [nodes |-> <<>>, queried |-> queried]
  ELSE [nodes |-> querySelectorAll(d, selectors[i]),
        queried |-> Append(queried, selectors[i])]

\* multiQuery(selectors): the matches of the first selector that has any.
\* The result also lists the selectors queried, in order.
RECURSIVE multiQueryFrom(_, _, _, _)
multiQueryFrom(d, selectors, i, queried) ==
  IF i > Len(selectors) THEN [nodes |-> <<>>, queried |-> queried]
  ELSE LET nodes == querySelectorAll(d, selectors[i])
       IN  IF Len(nodes) # 0
           THEN [nodes |-> nodes, queried |-> Append(queried, selectors[i])]
           ELSE multiQueryFrom(d, selectors, i + 1, Append(queried, selectors[i]))

multiQuery(d, selectors) == multiQueryFrom(d, selectors, 1, <<>>)

----------------------------------------------------------------------------
(* State *)

VARIABLES
  variant,              \* which of the evolutions of the engine runs
  window,               \* the globals the dictionary scripts have set
  config,               \* TranslationConfig: exactMap, templateMap, fixedTextMap
  compiledTemplates,    \* Translator.compiledTemplates
  dom,                  \* the live document
  translatedSet,        \* WeakSet of annotated elements
  translatedTextNodes,  \* WeakSet of annotated text nodes
  observedTriangles,    \* WeakSet of watched disclosure icons
  timers,               \* the pending setTimeout calls, in the order they were set
  timer,                \* the variable timer of the closure debounce returns
  loaded,               \* the window's load event has fired
  log,                  \* the writes of the last handler, in order
  queries,              \* what each multiQuery of the last handler queried
  lastRun,              \* the last handler
  quiet,                \* the last change of the document was a full pass
  sinceNotify,          \* ms since the last notification of the body observer
  burst,                \* notifications since the last debounced pass, capped
  firedAt,              \* sinceNotify when the last debounced pass started
  firedBurst,           \* burst when the last debounced pass started
  mutations,            \* page mutations so far
  ran,                  \* the strategies the last handler started, in order,
                        \* ended by "error" when an exception ended the handler
  triangleObservers     \* the attribute observers attached to each icon

vars == <<variant, window, config, compiledTemplates, dom, translatedSet,
          translatedTextNodes, observedTriangles, timers, timer, loaded, log,
          queries, lastRun, quiet, sinceNotify, burst, firedAt, firedBurst,
          mutations, ran, triangleObservers>>

\* "constructor"
tConstructor == <<"c","o","n","s","t","r","u","c","t","o","r">>

\* "function Object() { [native code] }", what a template literal or
\* textContent makes of the function Object, taken as one glyph
strFunctionObject == <<"{function Object}">>

\* What a property read finds on Object.prototype when the object has no
\* such key of its own, as the text it is written as.  The maps are plain
\* objects ({ ...a, ...b } and window.fixedTextMap || {}), so map['constructor']
\* is the function Object, which is truthy; toString, valueOf and
\* hasOwnProperty are found the same way.
ObjectPrototype == (tConstructor :> strFunctionObject)

\* this.config.exactMap[val]: the translation, empty (falsy) when there is none
exactGet(val) ==
  IF val \in DOMAIN config.exactMap THEN config.exactMap[val]
  ELSE IF val \in DOMAIN ObjectPrototype THEN ObjectPrototype[val]
  ELSE <<>>

\* this.config.fixedTextMap[txt]
fixedGet(txt) ==
  IF \E i \in 1..Len(config.fixedTextMap) : config.fixedTextMap[i][1] = txt
  THEN config.fixedTextMap[CHOOSE i \in 1..Len(config.fixedTextMap) :
                             config.fixedTextMap[i][1] = txt][2]
  ELSE IF txt \in DOMAIN ObjectPrototype THEN ObjectPrototype[txt]
  ELSE <<>>

\* `${translation} (${original})`
Annotated(translation, original) ==
  translation \o <<" ", "(">> \o original \o <<")">>

----------------------------------------------------------------------------
(* What a handler carries from step to step: the document, the two mark     *)
(* sets, whether the body observer has a child-list record to deliver, and   *)
(* the record of its writes.                                                 *)

Begin ==
  [dom |-> dom, translatedSet |-> translatedSet,
   translatedTextNodes |-> translatedTextNodes,
   notified |-> FALSE, log |-> <<>>, queries |-> <<>>, ran |-> <<>>]

\* a strategy of translateAll starts
Started(st, strategy) == [st EXCEPT !.ran = Append(@, strategy)]

\* an exception left the handler: nothing after the throw runs
Thrown(st) == st.ran # <<>> /\ st.ran[Len(st.ran)] = "error"

\* the handler throws
Throw(st) == [st EXCEPT !.ran = Append(@, "error")]

RECURSIVE ForEach(_, _, _)
ForEach(Op(_, _), st, els) ==
  IF els = <<>> THEN st ELSE ForEach(Op, Op(st, Head(els)), Tail(els))

\* one write, as the record of the handler keeps it
Written(st, node, by, before, after) ==
  [node |-> node, by |-> by, before |-> before, after |-> after,
   marked |-> node \in st.translatedSet \cup st.translatedTextNodes,
   host |-> ParentOf(st.dom, node),
   hostMarked |-> ParentOf(st.dom, node) \in st.translatedSet,
   editable |-> InEditable(st.dom, node),
   target |-> IF IsElement(st.dom, node) THEN node ELSE ParentOf(st.dom, node)]

\* el.textContent = s, seen by the body observer when el is in the document
WriteText(st, el, s, by) ==
  [st EXCEPT !.dom = SetTextContent(st.dom, el, s),
             !.notified = @ \/ (el \in Attached(st.dom) /\ ChangesChildList(st.dom, el, s)),
             !.log = Append(@, Written(st, el, by, TextContent(st.dom, el), s))]

\* node.nodeValue = s: character data, which the body observer does not watch
WriteValue(st, node, s, by) ==
  [st EXCEPT !.dom = SetNodeValue(st.dom, node, s),
             !.log = Append(@, Written(st, node, by, st.dom[node].val, s))]

\* el.setAttribute('alt', s)
WriteAlt(st, el, s, by) ==
  [st EXCEPT !.dom = SetAlt(st.dom, el, s),
             !.log = Append(@, Written(st, el, by, st.dom[el].alt, s))]

\* this.translatedSet.add(el)
MarkElement(st, el) == [st EXCEPT !.translatedSet = @ \cup {el}]

\* this.translatedTextNodes.add(node)
MarkTextNode(st, node) == [st EXCEPT !.translatedTextNodes = @ \cup {node}]

\* one group of selectorConfig, as the record of the handler keeps it: what
\* multiQuery queried and returned, what each selector of the group matched
\* in the document then, and the elements the group's annotation marked
Queried(st, cfg, q, out) ==
  [selectors |-> cfg.selectors,
   queried   |-> q.queried,
   nodes     |-> q.nodes,
   matches   |-> [i \in 1..Len(cfg.selectors) |-> querySelectorAll(st.dom, cfg.selectors[i])],
   wrote     |-> out.translatedSet \ st.translatedSet]

\* el.getAttribute(prop)?.trim() for prop = 'alt': empty when there is none
AltValue(d, el) == IF HasFact(d, el, "alt") THEN Trim(d[el].alt) ELSE <<>>

----------------------------------------------------------------------------
(* Matching strategies of content.js *)

\* applyExactTranslation, the callback of elements.forEach
exactStep(st, el, prop) ==
  IF el \in st.translatedSet THEN st
  ELSE LET val == IF prop = "textContent" THEN Trim(TextContent(st.dom, el))
                  ELSE AltValue(st.dom, el)
           tr  == exactGet(val)
       IN  IF val # <<>> /\ tr # <<>> /\ ~Includes(val, tr)
           THEN MarkElement(
                  IF prop = "textContent"
                  THEN WriteText(st, el, Annotated(tr, val), "exact")
                  ELSE WriteAlt(st, el, Annotated(tr, val), "exact"),
                  el)
           ELSE st

applyExactTranslation(st, elements, prop) ==
  ForEach(LAMBDA s, el : exactStep(s, el, prop), st, elements)

\* translateItemAttributes, the callback of forEach over 'ul li'
itemStep(st, el) ==
  IF el \in st.translatedSet THEN st
  ELSE LET txt == Trim(TextContent(st.dom, el))
           i   == FirstMatcher(compiledTemplates, txt, 1)
       IN  IF i = 0 THEN st
           ELSE MarkElement(
                  WriteText(st, el,
                            TemplateOutput(compiledTemplates[i].translation,
                                           RegexMatch(compiledTemplates[i].regex, txt).caps),
                            "template"),
                  el)

translateItemAttributes(st) ==
  ForEach(itemStep, Started(st, "template"), querySelectorAll(st.dom, "ul li"))

\* Object.keys(fixedTextMap).some(key => txt.includes(key))
SomeKeyIncluded(txt) ==
  \E i \in 1..Len(config.fixedTextMap) : Includes(txt, config.fixedTextMap[i][1])

\* for (const [en, zh] of Object.entries(fixedTextMap))
\*   txt = txt.replace(new RegExp(`\\b${en}\\b`, 'g'), zh)
RECURSIVE ReplaceAllKeys(_, _)
ReplaceAllKeys(txt, i) ==
  IF i > Len(config.fixedTextMap) THEN txt
  ELSE ReplaceAllKeys(
         ReplaceWord(txt, config.fixedTextMap[i][1], config.fixedTextMap[i][2]),
         i + 1)

\* the filter of translateFixedText
fixedFilter(d, el) ==
  LET txt == TextContent(d, el)
  IN  /\ Trim(txt) # <<>>
      /\ exactGet(Trim(txt)) = <<>>
      /\ SomeKeyIncluded(txt)

\* translateFixedText, the callback of elements.forEach
fixedStep(st, el) ==
  IF Thrown(st) THEN st
  ELSE IF el \in st.translatedSet THEN st
  ELSE IF \E i \in 1..Len(config.fixedTextMap) : RegExpThrows(config.fixedTextMap[i][1])
       THEN Throw(st)
  ELSE LET txt == ReplaceAllKeys(TextContent(st.dom, el), 1)
       IN  IF txt # TextContent(st.dom, el)
           THEN MarkElement(WriteText(st, el, txt, "substring"), el)
           ELSE st

translateFixedText(st) ==
  ForEach(fixedStep, Started(st, "substring"),
          SelectSeq(querySelectorAll(st.dom, "p, span, li"),
                    LAMBDA el : fixedFilter(st.dom, el)))

\* translateTippyRootText, the callback of elements.forEach
tippyStep(st, el) ==
  IF el \in st.translatedSet THEN st
  ELSE LET txt == Trim(TextContent(st.dom, el))
       IN  IF txt = <<>> THEN st
           ELSE IF exactGet(txt) # <<>>
                THEN MarkElement(WriteText(st, el, Annotated(exactGet(txt), txt), "tooltip"), el)
           ELSE IF fixedGet(txt) # <<>>
                THEN MarkElement(WriteText(st, el, fixedGet(txt), "tooltip"), el)
           ELSE st

translateTippyRootText(st) ==
  IF Thrown(st) THEN st
  ELSE ForEach(tippyStep, Started(st, "tooltip"),
               querySelectorAll(st.dom, "[data-tippy-root] span, [data-tippy-root] div"))

\* TranslationConfig.selectorConfig
selectorConfig ==
  << [selectors |-> <<"[data-tippy-root] p", "[data-tippy-root] span">>,
      attribute |-> "textContent"],
     [selectors |-> <<"p.x2fl5vp.x1g1qkmr", "p[data-test=skill-name]">>,
      attribute |-> "textContent"],
     [selectors |-> <<"img[alt]", "img.skill-icon">>, attribute |-> "alt"],
     [selectors |-> <<"span.x5qbwci.xggjnk3", "span.skill-name">>,
      attribute |-> "textContent"],
     [selectors |-> <<"p.x1cabzks">>, attribute |-> "textContent"] >>

\* the callback of selectorConfig.forEach in translateAll
groupStep(st, cfg) ==
  LET q   == multiQuery(st.dom, cfg.selectors)
      out == applyExactTranslation(Started(st, "exact"), q.nodes, cfg.attribute)
  IN  [out EXCEPT !.queries = Append(@, Queried(st, cfg, q, out))]

translateAll(st) ==
  translateTippyRootText(
    translateFixedText(
      translateItemAttributes(
        ForEach(groupStep, st, selectorConfig))))

----------------------------------------------------------------------------
(* Matching strategies of the evolution with the text-node walk and the     *)
(* Expansion Watcher (part_000)                                              *)

\* applyExactTranslation, the callback of elements.forEach
exactStep_p0(st, el, prop) ==
  IF el \in st.translatedSet THEN st
  ELSE LET value == IF prop = "textContent" THEN Trim(TextContent(st.dom, el))
                    ELSE AltValue(st.dom, el)
           translated == exactGet(value)
       IN  IF value = <<>> THEN st
           ELSE IF translated = <<>> THEN st
           ELSE MarkElement(
                  IF prop = "textContent"
                  THEN WriteText(st, el, Annotated(translated, value), "exact")
                  ELSE WriteAlt(st, el, Annotated(translated, value), "exact"),
                  el)

applyExactTranslation_p0(st, elements, prop) ==
  ForEach(LAMBDA s, el : exactStep_p0(s, el, prop), st, elements)

\* for (const [en, zh] of Object.entries(fixedTextMap))
\*   if (txt.includes(en)) { txt = txt.replace(...); changed = true }
RECURSIVE ReplaceIncluded(_, _)
ReplaceIncluded(r, i) ==
  IF i > Len(config.fixedTextMap) THEN r
  ELSE LET en == config.fixedTextMap[i][1]
           zh == config.fixedTextMap[i][2]
       IN  IF Includes(r.txt, en)
           THEN IF RegExpThrows(en) THEN [r EXCEPT !.thrown = TRUE]
                ELSE ReplaceIncluded([r EXCEPT !.txt = ReplaceWord(r.txt, en, zh),
                                               !.changed = TRUE], i + 1)
           ELSE ReplaceIncluded(r, i + 1)

\* translateFixedText, the callback of candidates.forEach
fixedStep_p0(st, el) ==
  IF Thrown(st) THEN st
  ELSE IF el \in st.translatedSet THEN st
  ELSE LET txt == TextContent(st.dom, el)
           r   == ReplaceIncluded([txt |-> txt, changed |-> FALSE, thrown |-> FALSE], 1)
       IN  IF Trim(txt) = <<>> THEN st
           ELSE IF exactGet(Trim(txt)) # <<>> THEN st
           ELSE IF r.thrown THEN Throw(st)
           ELSE IF r.changed
                THEN MarkElement(WriteText(st, el, r.txt, "substring"), el)
           ELSE st

translateFixedText_p0(st) ==
  ForEach(fixedStep_p0, Started(st, "substring"), querySelectorAll(st.dom, "p, span, li"))

\* the text nodes a TreeWalker over document.body shows, in document order
TextNodes(d) == SelectSeq(Preorder(d, Body), LAMBDA n : IsTextNode(d, n))

\* the walk, were it to leave alone the text nodes of a marked element
fallbackStep_p0_scoped(st, node) ==
  IF node \in st.translatedTextNodes THEN st
  ELSE IF ParentOf(st.dom, node) \in st.translatedSet THEN st
  ELSE LET raw     == st.dom[node].val
           trimmed == Trim(raw)
           tr      == exactGet(trimmed)
       IN  IF raw = <<>> THEN st
           ELSE IF trimmed = <<>> THEN st
           ELSE IF tr # <<>> /\ ~Includes(raw, tr)
                THEN MarkTextNode(WriteValue(st, node, Annotated(tr, trimmed), "fallback"), node)
           ELSE st

\* translateFallback, the body of the loop over walker.nextNode()
fallbackStep_p0(st, node) ==
  IF node \in st.translatedTextNodes THEN st
  ELSE LET raw     == st.dom[node].val
           trimmed == Trim(raw)
           tr      == exactGet(trimmed)
       IN  IF raw = <<>> THEN st
           ELSE IF trimmed = <<>> THEN st
           ELSE IF tr # <<>> /\ ~Includes(raw, tr)
                THEN MarkTextNode(WriteValue(st, node, Annotated(tr, trimmed), "fallback"), node)
           ELSE st

translateFallback_p0(st) ==
  IF Thrown(st) THEN st
  ELSE ForEach(fallbackStep_p0, Started(st, "fallback"), TextNodes(st.dom))

\* TranslationConfig.selectorConfig
selectorConfig_p0 ==
  << [selectors |-> <<"[data-tippy-root] p", "[data-tippy-root] span">>,
      attribute |-> "textContent"],
     [selectors |-> <<"p[data-test=skill-name]">>, attribute |-> "textContent"],
     [selectors |-> <<"img[alt]", "img.skill-icon">>, attribute |-> "alt"] >>

groupStep_p0(st, cfg) ==
  LET q   == multiQuery(st.dom, cfg.selectors)
      out == applyExactTranslation_p0(Started(st, "exact"), q.nodes, cfg.attribute)
  IN  [out EXCEPT !.queries = Append(@, Queried(st, cfg, q, out))]

\* translateAll with the text-node walk moved before the tooltip strategy
translateAll_p0_early(st) ==
  translateTippyRootText(
    translateFallback_p0(
      translateFixedText_p0(
        translateItemAttributes(
          ForEach(groupStep_p0, st, selectorConfig_p0)))))

translateAll_p0(st) ==
  translateFallback_p0(
    translateTippyRootText(
      translateFixedText_p0(
        translateItemAttributes(
          ForEach(groupStep_p0, st, selectorConfig_p0)))))

----------------------------------------------------------------------------
(* Matching strategies of the latest evolution, which leaves foreign        *)
(* editable regions alone and substitutes in text nodes (part_001)           *)

\* the text nodes among el.childNodes
ChildTextNodes(d, el) == SelectSeq(d[el].kids, LAMBDA n : IsTextNode(d, n))

\* applyExactTranslation, the callback of textNodes.forEach
exactNodeStep_p1(st, node) ==
  LET raw == Trim(st.dom[node].val)
      translated == exactGet(raw)
  IN  IF raw = <<>> THEN st
      ELSE IF translated # <<>>
           THEN WriteValue(st, node, Annotated(translated, raw), "exact")
      ELSE st

\* applyExactTranslation, the callback of elements.forEach
exactStep_p1(st, el, prop) ==
  IF el \in st.translatedSet THEN st
  ELSE IF closest(st.dom, el, "[data-lexical-editor], [data-lexical-decorator]") # 0 THEN st
  ELSE IF prop = "textContent"
       THEN MarkElement(ForEach(exactNodeStep_p1, st, ChildTextNodes(st.dom, el)), el)
  ELSE LET value == AltValue(st.dom, el)
           translated == exactGet(value)
       IN  IF value = <<>> THEN st
           ELSE MarkElement(
                  IF translated # <<>>
                  THEN WriteAlt(st, el, Annotated(translated, value), "exact")
                  ELSE st,
                  el)

applyExactTranslation_p1(st, elements, prop) ==
  ForEach(LAMBDA s, el : exactStep_p1(s, el, prop), st, elements)

\* for (const [en, zh] of Object.entries(fixedTextMap))
\*   if (re.test(txt)) { txt = txt.replace(re, zh); changed = true }
RECURSIVE ReplaceTested(_, _)
ReplaceTested(r, i) ==
  IF i > Len(config.fixedTextMap) THEN r
  ELSE LET en == config.fixedTextMap[i][1]
           zh == config.fixedTextMap[i][2]
       IN  IF WordTest(r.txt, en)
           THEN ReplaceTested([txt |-> ReplaceWord(r.txt, en, zh), changed |-> TRUE], i + 1)
           ELSE ReplaceTested(r, i + 1)

\* node.parentElement.getAttribute('data-lexical-text') === 'true'
InLexicalText(d, node) ==
  ParentOf(d, node) # 0 /\ HasFact(d, ParentOf(d, node), "data-lexical-text=true")

\* translateFixedText, the body of the loop over walker.nextNode()
fixedStep_p1(st, node) ==
  IF node \in st.translatedTextNodes THEN st
  ELSE IF InLexicalText(st.dom, node) THEN st
  ELSE LET raw == st.dom[node].val
           r   == ReplaceTested([txt |-> raw, changed |-> FALSE], 1)
       IN  IF raw = <<>> THEN st
           ELSE IF r.changed
                THEN MarkTextNode(WriteValue(st, node, r.txt, "substring"), node)
           ELSE st

translateFixedText_p1(st) ==
  ForEach(fixedStep_p1, Started(st, "substring"), TextNodes(st.dom))

\* translateFallback, the body of the loop over walker.nextNode()
fallbackStep_p1(st, node) ==
  IF node \in st.translatedTextNodes THEN st
  ELSE IF InLexicalText(st.dom, node) THEN st
  ELSE LET raw     == st.dom[node].val
           trimmed == Trim(raw)
           tr      == exactGet(trimmed)
       IN  IF raw = <<>> THEN st
           ELSE IF trimmed = <<>> THEN st
           ELSE IF tr # <<>> /\ ~Includes(raw, tr)
                THEN MarkTextNode(WriteValue(st, node, Annotated(tr, trimmed), "fallback"), node)
           ELSE st

translateFallback_p1(st) ==
  IF Thrown(st) THEN st
  ELSE ForEach(fallbackStep_p1, Started(st, "fallback"), TextNodes(st.dom))

groupStep_p1(st, cfg) ==
  LET q   == multiQuery(st.dom, cfg.selectors)
      out == applyExactTranslation_p1(Started(st, "exact"), q.nodes, cfg.attribute)
  IN  [out EXCEPT !.queries = Append(@, Queried(st, cfg, q, out))]

translateAll_p1(st) ==
  translateFallback_p1(
    translateTippyRootText(
      translateFixedText_p1(
        translateItemAttributes(
          ForEach(groupStep_p1, st, selectorConfig_p0)))))

----------------------------------------------------------------------------
(* Expansion Watcher (part_000, part_001) *)

\* observeTriangles: every icon not yet watched gets an attribute observer
observeTriangles(d, observed) ==
  observed \cup SeqToSet(querySelectorAll(d, "img[src*=triangle-], span[style*=triangle-]"))

\* the attribute observers of each icon, were every icon the query returns
\* given one more
attachObservers_unguarded(d, observed, mos) ==
  LET icons == SeqToSet(querySelectorAll(d, "img[src*=triangle-], span[style*=triangle-]"))
  IN  [n \in DOMAIN mos \cup icons |->
         (IF n \in DOMAIN mos THEN mos[n] ELSE 0) + (IF n \in icons THEN 1 ELSE 0)]

\* observeTriangles: new MutationObserver(...).observe(icon, ...) for every
\* icon the WeakSet does not hold; mos counts the observers of each icon
attachObservers(d, observed, mos) ==
  LET icons == SeqToSet(querySelectorAll(d, "img[src*=triangle-], span[style*=triangle-]"))
             \ observed
  IN  [n \in DOMAIN mos \cup icons |->
         (IF n \in DOMAIN mos THEN mos[n] ELSE 0) + (IF n \in icons THEN 1 ELSE 0)]

\* handleTriangleChange: isUp
isUp(d, icon) == HasFact(d, icon, "triangle-up.svg")

\* getSupportGemNodes, the callback of icons.forEach
gemNodeStep(d, nodes, icon) ==
  LET row    == closestDiv(d, icon)
      textEl == IF row = 0 THEN 0 ELSE querySelector(d, row, "div, span, p")
  IN  IF row = 0 THEN nodes
      ELSE IF textEl = 0 THEN nodes
      ELSE IF Trim(TextContent(d, textEl)) = <<>> THEN nodes
      ELSE IF exactGet(Trim(TextContent(d, textEl))) # <<>> THEN Append(nodes, textEl)
      ELSE nodes

getSupportGemNodes(d) ==
  ForEach(LAMBDA nodes, icon : gemNodeStep(d, nodes, icon), <<>>,
          querySelectorAll(d, "img[width=40], img[height=40], img[src*=SupportGem]"))

\* el.textContent = ''; el.appendChild(frag) for the fragment zh, <br>, (en)
SetGemContent(d, el, zh, en) ==
  LET d0 == [d EXCEPT ![el].kids = <<>>]
      a  == Fresh(d0)
      d1 == d0 @@ (a :> TextNode(zh))
      b  == Fresh(d1)
      d2 == d1 @@ (b :> ElementNode("br", {}, <<>>, <<>>))
      c  == Fresh(d2)
      d3 == d2 @@ (c :> TextNode(<<"(">> \o en \o <<")">>))
  IN  [d3 EXCEPT ![el].kids = <<a, b, c>>,
                 ![el].attrs = @ \cup {"data-support-translated=1"}]

\* translateSupportGems, the callback of gemBlocks.forEach
gemStep(st, el) ==
  IF HasFact(st.dom, el, "data-support-translated=1") THEN st
  ELSE LET en == Trim(TextContent(st.dom, el))
           zh == exactGet(en)
       IN  IF zh = <<>> THEN st
           ELSE [st EXCEPT
                   !.dom = SetGemContent(st.dom, el, zh, en),
                   !.notified = @ \/ el \in Attached(st.dom),
                   !.log = Append(@, Written(st, el, "gems", TextContent(st.dom, el),
                                             zh \o <<"(">> \o en \o <<")">>))]

translateSupportGems(st) == ForEach(gemStep, st, getSupportGemNodes(st.dom))

----------------------------------------------------------------------------
(* Reactive Scheduler *)

DebounceDelay == 200

ClickDelay == 500

ClickDelay_p0 == 300

GemDelay == 100

\* the step of the clock: every delay is a multiple of it
TickMs == GemDelay

\* at most this many click timers are pending at once
MaxClicks == 1

\* at most this many page mutations happen
MaxMutations == 1

\* the count of notifications of a burst is kept up to this
MaxBurst == 3

\* a table of one slot: a call set takes the place of every pending call
setTimeout_slot(tms, fn, delay) == <<[fn |-> fn, left |-> delay]>>

\* A pending call of setTimeout.  The identifier setTimeout returns is opaque:
\* a pending call is named by its place in the table, 0 names no pending call
\* (null, or a call that has run or was cleared).
setTimeout(tms, fn, delay) == Append(tms, [fn |-> fn, left |-> delay])

\* handleTriangleChange without the test of isUp
handleTriangleChange_always(d, icon, tms) == setTimeout(tms, "gems", GemDelay)

\* handleTriangleChange: if (isUp) setTimeout(() => this.translateSupportGems(), 100)
handleTriangleChange(d, icon, tms) ==
  IF isUp(d, icon) THEN setTimeout(tms, "gems", GemDelay) ELSE tms

\* the callbacks of the n attribute observers of an icon whose src or style
\* changed
RECURSIVE triangleCallbacks(_, _, _, _)
triangleCallbacks(d, icon, tms, n) ==
  IF n = 0 THEN tms
  ELSE triangleCallbacks(d, icon, handleTriangleChange(d, icon, tms), n - 1)

Without(tms, i) == SubSeq(tms, 1, i - 1) \o SubSeq(tms, i + 1, Len(tms))

\* clearTimeout(id)
clearTimeout(tms, id) == IF id \in 1..Len(tms) THEN Without(tms, id) ELSE tms

\* the name held stands for once the call at place i has left the table
Renamed(held, i) ==
  IF held = i THEN 0 ELSE IF held > i THEN held - 1 ELSE held

\* debounce without clearTimeout(timer): the pending call stays in the table
debounced_keep(tms, held) ==
  [timers |-> Append(tms, [fn |-> "debounced", left |-> DebounceDelay]),
   timer  |-> Len(tms) + 1]

\* debounce that sets no new call when it cleared a pending one
debounced_cancel(tms, held) ==
  IF held \in 1..Len(tms)
  THEN [timers |-> Without(tms, held), timer |-> 0]
  ELSE [timers |-> Append(tms, [fn |-> "debounced", left |-> DebounceDelay]),
        timer  |-> Len(tms) + 1]

\* the function debounce returns: clearTimeout(timer); timer = setTimeout(fn, delay)
debounced(tms, held) ==
  LET cleared == clearTimeout(tms, held)
  IN  [timers |-> setTimeout(cleared, "debounced", DebounceDelay),
       timer  |-> Len(cleared) + 1]

\* the full pass of the running evolution
Pass(st) ==
  CASE variant = "content"  -> translateAll(st)
    [] variant = "part_000" -> translateAll_p0(st)
    [] variant = "part_001" -> translateAll_p1(st)

HasWatcher == variant \in {"part_000", "part_001"}

\* the click listener's delay
ClickDelayOf == IF variant = "content" THEN ClickDelay ELSE ClickDelay_p0

Min(a, b) == IF a < b THEN a ELSE b

\* The end of a handler that left the document as st.dom with tms pending.
\* If it changed a child list under the body, the body observer's callback
\* runs next: debouncedTranslate(), and observeTriangles() where there is a
\* watcher.  Nodes that left the document are collected.
Finish(st, tms, held, obs, mos, run) ==
  LET d   == Collect(st.dom)
      deb == debounced(tms, held)
      mo2 == IF st.notified /\ HasWatcher THEN attachObservers(d, obs, mos) ELSE mos
  IN  /\ dom' = d
      /\ ran' = st.ran
      /\ triangleObservers' = [n \in DOMAIN mo2 \cap DOMAIN d |-> mo2[n]]
      /\ translatedSet' = st.translatedSet \cap DOMAIN d
      /\ translatedTextNodes' = st.translatedTextNodes \cap DOMAIN d
      /\ log' = st.log
      /\ queries' = st.queries
      /\ lastRun' = run
      /\ IF st.notified
         THEN /\ timers' = deb.timers
              /\ timer' = deb.timer
              /\ observedTriangles' =
                   (IF HasWatcher THEN observeTriangles(d, obs) ELSE obs) \cap DOMAIN d
              /\ sinceNotify' = 0
              /\ burst' = Min(MaxBurst, (IF run = "debounced" THEN 0 ELSE burst) + 1)
         ELSE /\ timers' = tms
              /\ timer' = held
              /\ observedTriangles' = obs \cap DOMAIN d
              /\ sinceNotify' = IF run = "debounced" THEN 0 ELSE sinceNotify
              /\ burst' = IF run = "debounced" THEN 0 ELSE burst
      /\ firedAt' = IF run = "debounced" THEN sinceNotify ELSE 0
      /\ firedBurst' = IF run = "debounced" THEN burst ELSE 0

----------------------------------------------------------------------------
(* Texts, dictionaries and pages the engine is run on *)

\* "Fire"
tFire == <<"F","i","r","e">>

\* "Ice"
tIce == <<"I","c","e">>

\* "Str"
tStr == <<"S","t","r">>

\* "Dex"
tDex == <<"D","e","x">>

\* "Str 10"
tStr10 == <<"S","t","r"," ","1","0">>

\* "Strength 10"
tStrength10 == <<"S","t","r","e","n","g","t","h"," ","1","0">>

\* "+25 to Life"
tPlus25ToLife == <<"+","2","5"," ","t","o"," ","L","i","f","e">>

\* "30 to Life"
t30ToLife == <<"3","0"," ","t","o"," ","L","i","f","e">>

\* "# to Life"
tplHashToLife == <<"#"," ","t","o"," ","L","i","f","e">>

\* "+# to Life"
tplPlusHashToLife == <<"+","#"," ","t","o"," ","L","i","f","e">>

\* "{huo}"
zhHuo == <<"{huo}">>

\* "{bing}"
zhBing == <<"{bing}">>

\* "{li}"
zhLi == <<"{li}">>

\* "{yan}"
zhYan == <<"{yan}">>

\* "{min}"
zhMin == <<"{min}">>

\* "# {ming}"
zhHashMing == <<"#"," ","{ming}">>

\* "+# {ming}"
zhPlusHashMing == <<"+","#"," ","{ming}">>

\* "# {sheng}"
zhHashSheng == <<"#"," ","{sheng}">>

\* "1-2 Dmg"
t1to2Dmg == <<"1","-","2"," ","D","m","g">>

\* "#-# Dmg"
tplHashHashDmg == <<"#","-","#"," ","D","m","g">>

\* "#~# {shang}"
zhHashHashShang == <<"#","~","#"," ","{shang}">>

\* a curated dictionary: "Fire" is a key of the exact map and of the substring
\* map, and the templates that overlap agree
DictCurated ==
  [exactMap     |-> (tFire :> zhHuo) @@ (tIce :> zhBing),
   templateMap  |-> << <<tplPlusHashToLife, zhPlusHashMing>>, <<tplHashToLife, zhHashMing>>,
                       <<tplHashHashDmg, zhHashHashShang>> >>,
   fixedTextMap |-> << <<tStr, zhLi>>, <<tFire, zhYan>> >>]

\* a dictionary whose substring map leads to a key of the exact map, and
\* whose templates overlap: "# to Life" is declared before "+# to Life"
DictChained ==
  [exactMap     |-> (tDex :> zhMin) @@ (tIce :> zhBing),
   templateMap  |-> << <<tplHashToLife, zhHashSheng>>, <<tplPlusHashToLife, zhPlusHashMing>>,
                       <<tplHashHashDmg, zhHashHashShang>> >>,
   fixedTextMap |-> << <<tStr, tDex>> >>]

\* "+25 {ming}"
zhPlus25Ming == <<"+","2","5"," ","{ming}">>

\* a dictionary taken as it came: a key of the substring map is a whole
\* modifier that starts with '+', and no template covers that modifier
DictRaw ==
  [exactMap     |-> (tFire :> zhHuo) @@ (tIce :> zhBing),
   templateMap  |-> << <<tplHashHashDmg, zhHashHashShang>> >>,
   fixedTextMap |-> << <<tPlus25ToLife, zhPlus25Ming>>, <<tStr, zhLi>> >>]

\* "-ice"
tMinusIceLower == <<"-","i","c","e">>

\* "Ices"
tIces == <<"I","c","e","s">>

\* a dictionary with templates that overlap, "# to Life" declared before
\* "+# to Life", and a template without a placeholder, "Ice"
DictTies ==
  [exactMap     |-> (tFire :> zhHuo) @@ (tIce :> zhBing),
   templateMap  |-> << <<tplHashToLife, zhHashSheng>>, <<tplPlusHashToLife, zhPlusHashMing>>,
                       <<tIce, zhBing>> >>,
   fixedTextMap |-> << <<tStr, zhLi>> >>]

Dicts == {DictCurated, DictChained, DictRaw, DictTies}

\* "{old}"
zhOld == <<"{old}">>

\* The globals a dictionary is loaded from.  Others has an entry, out of
\* date, for every key; legendaryItems has the entry of "Ice", passives is
\* empty and Skills has the other entries.
WindowOf(dict) ==
  [Others         |-> [k \in DOMAIN dict.exactMap |-> zhOld],
   legendaryItems |-> [k \in DOMAIN dict.exactMap \cap {tIce} |-> dict.exactMap[k]],
   passives       |-> [k \in {} |-> zhOld],
   Skills         |-> [k \in DOMAIN dict.exactMap \ {tIce} |-> dict.exactMap[k]],
   templateMap    |-> dict.templateMap,
   fixedTextMap   |-> dict.fixedTextMap]

\* a merge in which the first source that has a key keeps it
spread_first(sources) ==
  [k \in UNION {DOMAIN sources[i] : i \in DOMAIN sources} |->
     sources[CHOOSE i \in DOMAIN sources :
               /\ k \in DOMAIN sources[i]
               /\ \A j \in 1..(i - 1) : k \notin DOMAIN sources[j]][k]]

\* { ...a, ...b, ...c, ...d }: the own entries of each source are copied in
\* turn, a later copy replaces an earlier one
RECURSIVE spread(_)
spread(sources) ==
  IF sources = <<>> THEN [k \in {} |-> <<>>]
  ELSE sources[Len(sources)] @@ spread(SubSeq(sources, 1, Len(sources) - 1))

\* new TranslationConfig()
TranslationConfig(w) ==
  [exactMap     |-> spread(<<w.Others, w.legendaryItems, w.passives, w.Skills>>),
   templateMap  |-> w.templateMap,
   fixedTextMap |-> w.fixedTextMap]

P(attrs, kids) == ElementNode("p", attrs, <<>>, kids)

Span(attrs, kids) == ElementNode("span", attrs, <<>>, kids)

Div(attrs, kids) == ElementNode("div", attrs, <<>>, kids)

\* a skill page: a skill name, a paragraph the selectors miss, two stat lines
PageSkills ==
  (1 :> ElementNode("body", {}, <<>>, <<2, 4, 6, 8>>))
  @@ (2 :> P({"data-test=skill-name", "live"}, <<3>>)) @@ (3 :> TextNode(tFire))
  @@ (4 :> P({}, <<5>>)) @@ (5 :> TextNode(tFire))
  @@ (6 :> Span({}, <<7>>)) @@ (7 :> TextNode(tStr10))
  @@ (8 :> Span({}, <<9>>)) @@ (9 :> TextNode(tStrength10))

\* an item: a list of modifiers, one of them a skill name, and an icon
PageItem ==
  (1 :> ElementNode("body", {}, <<>>, <<2, 12>>))
  @@ (2 :> ElementNode("ul", {}, <<>>, <<3, 5, 7, 9>>))
  @@ (3 :> ElementNode("li", {"live"}, <<>>, <<4>>)) @@ (4 :> TextNode(tPlus25ToLife))
  @@ (5 :> ElementNode("li", {}, <<>>, <<6>>)) @@ (6 :> TextNode(t30ToLife))
  @@ (7 :> ElementNode("li", {}, <<>>, <<8>>)) @@ (8 :> TextNode(t1to2Dmg))
  @@ (9 :> ElementNode("li", {}, <<>>, <<10>>))
  @@ (10 :> P({"data-test=skill-name"}, <<11>>)) @@ (11 :> TextNode(tFire))
  @@ (12 :> ElementNode("img", {"alt"}, tFire, <<>>))

\* a tooltip layer with two labels
PageTooltip ==
  (1 :> ElementNode("body", {}, <<>>, <<2>>))
  @@ (2 :> Div({"data-tippy-root"}, <<3>>))
  @@ (3 :> Div({}, <<4, 6>>))
  @@ (4 :> Span({"live"}, <<5>>)) @@ (5 :> TextNode(tFire))
  @@ (6 :> Span({}, <<7>>)) @@ (7 :> TextNode(tStr))

\* a skill row with a disclosure icon and a support gem
PageGems ==
  (1 :> ElementNode("body", {}, <<>>, <<2, 3>>))
  @@ (2 :> ElementNode("img", {"triangle-down.svg"}, <<>>, <<>>))
  @@ (3 :> Div({}, <<4, 5>>))
  @@ (4 :> ElementNode("img", {"width=40"}, <<>>, <<>>))
  @@ (5 :> P({"data-test=skill-name", "live"}, <<6>>)) @@ (6 :> TextNode(tFire))

\* two skills, each with a disclosure icon; the row of support gems that
\* follows the first icon is the region it reveals, the region of the second
\* is not rendered
PageGemRows ==
  (1 :> ElementNode("body", {}, <<>>, <<2, 3, 7>>))
  @@ (2 :> ElementNode("img", {"triangle-down.svg"}, <<>>, <<>>))
  @@ (3 :> Div({}, <<4, 5>>))
  @@ (4 :> ElementNode("img", {"SupportGem"}, <<>>, <<>>))
  @@ (5 :> P({"live"}, <<6>>)) @@ (6 :> TextNode(tFire))
  @@ (7 :> ElementNode("span", {"triangle-down.svg"}, <<>>, <<>>))

\* a note in a Lexical editor, and a skill name outside of it
PageEditor ==
  (1 :> ElementNode("body", {}, <<>>, <<2, 7>>))
  @@ (2 :> Div({"data-lexical-editor"}, <<3, 5>>))
  @@ (3 :> P({}, <<4>>)) @@ (4 :> TextNode(tFire))
  @@ (5 :> Span({"data-lexical-text=true"}, <<6>>)) @@ (6 :> TextNode(tFire))
  @@ (7 :> P({"data-test=skill-name", "live"}, <<8>>)) @@ (8 :> TextNode(tFire))

\* a list of modifiers and labels: one that two templates match, a label in
\* another case after a sign, a text no template matches, and a label
PageList ==
  (1 :> ElementNode("body", {}, <<>>, <<2>>))
  @@ (2 :> ElementNode("ul", {}, <<>>, <<3, 5, 7, 9>>))
  @@ (3 :> ElementNode("li", {"live"}, <<>>, <<4>>)) @@ (4 :> TextNode(tPlus25ToLife))
  @@ (5 :> ElementNode("li", {}, <<>>, <<6>>)) @@ (6 :> TextNode(tMinusIceLower))
  @@ (7 :> ElementNode("li", {}, <<>>, <<8>>)) @@ (8 :> TextNode(tIces))
  @@ (9 :> ElementNode("li", {}, <<>>, <<10>>)) @@ (10 :> TextNode(tIce))

\* a page whose texts are names every object inherits: a skill name, a
\* tooltip and a plain label that read "constructor"
PageNames ==
  (1 :> ElementNode("body", {}, <<>>, <<2, 4, 7>>))
  @@ (2 :> P({"data-test=skill-name", "live"}, <<3>>)) @@ (3 :> TextNode(tConstructor))
  @@ (4 :> Div({"data-tippy-root"}, <<5>>))
  @@ (5 :> Div({}, <<6>>)) @@ (6 :> TextNode(tConstructor))
  @@ (7 :> ElementNode("h3", {}, <<>>, <<8>>)) @@ (8 :> TextNode(tConstructor))

\* a note: one paragraph no selector of the groups matches
PageNote ==
  (1 :> ElementNode("body", {}, <<>>, <<2>>))
  @@ (2 :> P({"live"}, <<3>>)) @@ (3 :> TextNode(tFire))

\* the same page with the first skill expanded
PageGemRowsOpen == [PageGemRows EXCEPT ![2].attrs = {"triangle-up.svg"}]

Pages ==
  {PageSkills, PageItem, PageTooltip, PageGems, PageGemRows, PageGemRowsOpen, PageEditor,
   PageList, PageNames, PageNote}

Variants == {"content", "part_000", "part_001"}

\* the evolution, the dictionary and the page of a run: the page of support
\* gems for the evolutions with a watcher, the page with an editor for the
\* evolution that knows of editors
Scenarios ==
  (Variants \X {DictCurated, DictChained} \X {PageSkills, PageItem})
  \cup (Variants \X {DictRaw} \X {PageItem})
  \cup (Variants \X {DictCurated} \X {PageTooltip})
  \cup ({"part_000", "part_001"} \X {DictCurated} \X {PageGems})
  \cup ({"part_001"} \X {DictCurated} \X {PageEditor})

\* the texts the page writes when it re-renders
PageTexts == {tIce}

----------------------------------------------------------------------------
(* Events *)

\* the runs of the Expansion Watcher on a page with two disclosure icons
WatcherScenarios ==
  {"part_000"} \X {DictCurated} \X {PageGemRows, PageGemRowsOpen}

\* the runs of the template strategy on a list of modifiers, and one run
\* with a disclosure icon
TemplateScenarios ==
  (Variants \X {DictTies} \X {PageList})
  \cup ({"part_000"} \X {DictTies} \X {PageGems})

\* the runs on texts that are no key of any map, and one run with a
\* disclosure icon
LookupScenarios ==
  (Variants \X {DictCurated} \X {PageNames, PageTooltip})
  \cup ({"part_000"} \X {DictCurated} \X {PageGems})

\* the runs of the evolutions that keep two mark sets
TrackerScenarios ==
  ({"part_000", "part_001"} \X {DictCurated, DictChained} \X {PageSkills})
  \cup ({"part_000"} \X {DictCurated} \X {PageGems})

\* the runs that are followed to their end
ConvergeScenarios ==
  (Variants \X {DictCurated} \X {PageNote})
  \cup ({"part_000"} \X {DictCurated} \X {PageSkills, PageGems})

\* the state once new Translator(config) has returned, for the runs scs
Constructed(scs) ==
  /\ variant \in Variants
  /\ dom \in Pages
  /\ \E dict \in Dicts :
       /\ <<variant, dict, dom>> \in scs
       /\ window = WindowOf(dict)
       /\ config = TranslationConfig(window)
  /\ compiledTemplates = compileTemplates(config.templateMap)
  /\ translatedSet = {}
  /\ translatedTextNodes = {}
  /\ observedTriangles = {}
  /\ timers = <<>>
  /\ timer = 0
  /\ loaded = FALSE
  /\ log = <<>>
  /\ queries = <<>>
  /\ lastRun = "constructor"
  /\ quiet = FALSE
  /\ sinceNotify = 0
  /\ burst = 0
  /\ firedAt = 0
  /\ firedBurst = 0
  /\ mutations = 0
  /\ ran = <<>>
  /\ triangleObservers = <<>>

Init == Constructed(Scenarios)

InitWatcher == Constructed(WatcherScenarios)

InitTemplates == Constructed(TemplateScenarios)

InitLookup == Constructed(LookupScenarios)

InitTrackers == Constructed(TrackerScenarios)

InitConverge == Constructed(ConvergeScenarios)

Fixed == UNCHANGED <<variant, window, config, compiledTemplates>>

\* window 'load': translateAll(), and observeTriangles() where there is a watcher
Load ==
  /\ ~loaded
  /\ loaded' = TRUE
  /\ LET st == Pass(Begin)
     IN  Finish(st, timers, timer,
                IF HasWatcher THEN observeTriangles(st.dom, observedTriangles)
                ELSE observedTriangles,
                IF HasWatcher
                THEN attachObservers(st.dom, observedTriangles, triangleObservers)
                ELSE triangleObservers,
                "load")
  /\ quiet' = TRUE
  /\ UNCHANGED mutations
  /\ Fixed

PendingClicks == Len(SelectSeq(timers, LAMBDA t : t.fn = "click"))

\* document 'click': setTimeout(translateAll, delay)
Click ==
  /\ PendingClicks < MaxClicks
  /\ timers' = setTimeout(timers, "click", ClickDelayOf)
  /\ lastRun' = "clickEvent"
  /\ log' = <<>>
  /\ queries' = <<>>
  /\ firedAt' = 0
  /\ firedBurst' = 0
  /\ ran' = <<>>
  /\ UNCHANGED <<dom, translatedSet, translatedTextNodes, observedTriangles, timer,
                 loaded, quiet, sinceNotify, burst, mutations, triangleObservers>>
  /\ Fixed

\* the pending call the event loop runs next: the first one that is due
Due(i) ==
  /\ i \in 1..Len(timers)
  /\ timers[i].left = 0
  /\ \A j \in 1..(i - 1) : timers[j].left # 0

\* the debounced translateAll runs
FireDebounced ==
  \E i \in 1..Len(timers) :
    /\ Due(i)
    /\ timers[i].fn = "debounced"
    /\ Finish(Pass(Begin), Without(timers, i), Renamed(timer, i), observedTriangles,
              triangleObservers, "debounced")
    /\ quiet' = TRUE
    /\ UNCHANGED <<loaded, mutations>>
    /\ Fixed

\* the deferred call of a click runs
FireClick ==
  \E i \in 1..Len(timers) :
    /\ Due(i)
    /\ timers[i].fn = "click"
    /\ LET st == Pass(Begin)
       IN  Finish(st, Without(timers, i), Renamed(timer, i),
                  IF HasWatcher THEN observeTriangles(st.dom, observedTriangles)
                  ELSE observedTriangles,
                  IF HasWatcher
                  THEN attachObservers(st.dom, observedTriangles, triangleObservers)
                  ELSE triangleObservers,
                  "click")
    /\ quiet' = TRUE
    /\ UNCHANGED <<loaded, mutations>>
    /\ Fixed

\* the deferred translateSupportGems of an expansion runs
FireGems ==
  \E i \in 1..Len(timers) :
    /\ Due(i)
    /\ timers[i].fn = "gems"
    /\ LET st == translateSupportGems(Begin)
       IN  /\ Finish(st, Without(timers, i), Renamed(timer, i), observedTriangles,
                     triangleObservers, "gems")
           /\ quiet' = (quiet /\ st.log = <<>>)
    /\ UNCHANGED <<loaded, mutations>>
    /\ Fixed

\* time passes, never beyond a pending call that is due
Tick ==
  /\ timers # <<>>
  /\ \A i \in 1..Len(timers) : timers[i].left >= TickMs
  /\ timers' = [i \in 1..Len(timers) |-> [timers[i] EXCEPT !.left = @ - TickMs]]
  /\ sinceNotify' = IF burst = 0 THEN 0 ELSE Min(DebounceDelay, sinceNotify + TickMs)
  /\ lastRun' = "tick"
  /\ log' = <<>>
  /\ queries' = <<>>
  /\ firedAt' = 0
  /\ firedBurst' = 0
  /\ ran' = <<>>
  /\ UNCHANGED <<dom, translatedSet, translatedTextNodes, observedTriangles, timer,
                 loaded, quiet, burst, mutations, triangleObservers>>
  /\ Fixed

\* the elements the page keeps re-rendering
LiveElements(d) == {n \in Attached(d) : IsElement(d, n) /\ HasFact(d, n, "live")}

\* the text nodes of those elements
LiveTextNodes(d) ==
  {n \in Attached(d) : IsTextNode(d, n) /\ ParentOf(d, n) \in LiveElements(d)}

\* the page re-renders an element: its children are replaced by a text
PageSetText ==
  /\ mutations < MaxMutations
  /\ \E el \in LiveElements(dom), txt \in PageTexts :
       /\ TextContent(dom, el) # txt
       /\ Finish([Begin EXCEPT !.dom = SetTextContent(dom, el, txt), !.notified = TRUE],
                 timers, timer, observedTriangles, triangleObservers, "page")
  /\ quiet' = FALSE
  /\ mutations' = mutations + 1
  /\ UNCHANGED loaded
  /\ Fixed

\* the page changes the value of a text node in place (character data)
PageSetValue ==
  /\ mutations < MaxMutations
  /\ \E node \in LiveTextNodes(dom), txt \in PageTexts :
       /\ dom[node].val # txt
       /\ Finish([Begin EXCEPT !.dom = SetNodeValue(dom, node, txt)],
                 timers, timer, observedTriangles, triangleObservers, "page")
  /\ quiet' = FALSE
  /\ mutations' = mutations + 1
  /\ UNCHANGED loaded
  /\ Fixed

\* The page flips a disclosure icon and, in the same commit, may render the
\* region the icon reveals.  The attribute observer of a watched icon calls
\* handleTriangleChange: if (isUp) setTimeout(translateSupportGems, 100)
PageToggle ==
  /\ mutations < MaxMutations
  /\ \E icon \in {n \in Attached(dom) :
                    Matches(dom, n, "img[src*=triangle-], span[style*=triangle-]")},
        el \in LiveElements(dom), txt \in PageTexts \cup {<<>>} :
       LET up == isUp(dom, icon)
           d  == [dom EXCEPT ![icon].attrs =
                    (@ \ {"triangle-down.svg", "triangle-up.svg"})
                    \cup {IF up THEN "triangle-down.svg" ELSE "triangle-up.svg"}]
           rendered == txt # <<>> /\ TextContent(dom, el) # txt
       IN  Finish([Begin EXCEPT
                     !.dom = IF rendered THEN SetTextContent(d, el, txt) ELSE d,
                     !.notified = rendered],
                  triangleCallbacks(d, icon, timers,
                                    IF icon \in DOMAIN triangleObservers
                                    THEN triangleObservers[icon] ELSE 0),
                  timer, observedTriangles, triangleObservers, "page")
  /\ quiet' = FALSE
  /\ mutations' = mutations + 1
  /\ UNCHANGED loaded
  /\ Fixed

Next ==
  \/ Load
  \/ Click
  \/ FireDebounced
  \/ FireClick
  \/ FireGems
  \/ Tick
  \/ PageSetText
  \/ PageSetValue
  \/ PageToggle

Spec == Init /\ [][Next]_vars

SpecWatcher == InitWatcher /\ [][Next]_vars

SpecTemplates == InitTemplates /\ [][Next]_vars

SpecLookup == InitLookup /\ [][Next]_vars

SpecTrackers == InitTrackers /\ [][Next]_vars

\* the handlers and steps that need no act of the page or of the user
EngineRuns == {"load", "debounced", "click", "gems", "tick"}

\* What the browser does by itself: the load event fires, time passes while
\* a call is pending and the event loop runs a pending call that is due.
\* Among the steps of Next these are the steps Load, Tick, FireDebounced,
\* FireClick and FireGems.
EngineNext ==
  /\ ~loaded \/ timers # <<>>
  /\ lastRun' \in EngineRuns

\* among the steps of Next, the step Load
LoadFires ==
  /\ ~loaded
  /\ loaded' = TRUE

\* among the steps of Next, the steps FireDebounced, FireClick and FireGems
DueRuns ==
  /\ \E i \in 1..Len(timers) : Due(i)
  /\ lastRun' \in {"debounced", "click", "gems"}

\* The runs in which the browser goes on: the load event fires, the clock
\* advances while every pending call is still waiting, and a call that is
\* due runs.  A due call stays due until it runs, and the clock stands
\* still while a call is due, so the condition on DueRuns lets no due call
\* wait for ever.
SpecConverge ==
  /\ InitConverge
  /\ [][Next]_vars
  /\ WF_loaded(LoadFires)
  /\ WF_vars(Tick)
  /\ WF_lastRun(DueRuns)

----------------------------------------------------------------------------
(* Properties *)

Entries == DOMAIN log

\* C1 (idempotence of the pass): in a state a full pass has just left, with no
\* page mutation since, a second full pass writes nothing: every element
\* text, text-node value and annotated attribute stays what the first pass
\* left.
C1_SecondPassWritesNothing == quiet => Pass(Begin).log = <<>>

\* C2 (one-shot marking): no strategy writes a node that is marked in the
\* Annotation Tracker at the moment of the write, in any handler, whatever
\* passes and page mutations came before.
C2_MarkedNeverWritten == \A i \in Entries : ~log[i].marked

\* the later write j touches the fragment the write i annotated: the same
\* node, its text node, or the element that holds it
SameFragment(i, j) ==
  \/ log[j].node = log[i].node
  \/ log[j].host = log[i].node
  \/ log[j].node = log[i].host

\* C3 (additive annotation): after exact-phrase annotation has rewritten a
\* fragment to 'translation (original)', every later write of the same handler
\* to that fragment, to its text node or to the element that holds it leaves
\* the original text in it verbatim.
C3_OriginalStays ==
  \A i, j \in Entries :
    (i < j /\ log[i].by = "exact" /\ SameFragment(i, j))
      => Includes(log[j].after, Trim(log[i].before))

\* C4 (precedence): the substring strategy performs no substitution on an
\* element or text node whose full trimmed text is a key of the exact map and
\* a key of the substring map, in every variant.
C4_ExactBeforeSubstring ==
  \A i \in Entries :
    log[i].by = "substring"
      => ~(exactGet(Trim(log[i].before)) # <<>> /\ fixedGet(Trim(log[i].before)) # <<>>)

\* C7 (fallback is last resort): the exhaustive text-node walk writes no text
\* node of an element that a scoped strategy has marked, whatever text the
\* strategy left in the element.
C7_FallbackSkipsMarkedElements ==
  \A i \in Entries : log[i].by = "fallback" => ~log[i].hostMarked

\* the number of pending calls of a kind
Pending(tms, fn) == Len(SelectSeq(tms, LAMBDA t : t.fn = fn))

\* the time left to each pending call of a kind, in the order they were set
Lefts(tms, fn) ==
  LET of == SelectSeq(tms, LAMBDA t : t.fn = fn)
  IN  [i \in 1..Len(of) |-> of[i].left]

\* C5 (trailing-edge debounce): while a burst of notifications is going on
\* exactly one debounced pass is pending, due 200 ms after the last
\* notification; the pass runs when that time has passed and at no other
\* time, and once it has run without a new notification none is pending.
C5_TrailingEdge ==
  /\ lastRun = "debounced" => (firedAt = DebounceDelay /\ firedBurst >= 1)
  /\ burst >= 1 => Lefts(timers, "debounced") = <<DebounceDelay - sinceNotify>>
  /\ burst = 0 => Pending(timers, "debounced") = 0
  /\ timer # 0 => (timer \in 1..Len(timers) /\ timers[timer].fn = "debounced")

\* a burst of two or more notifications has ended in one debounced pass
C5_Witness == lastRun = "debounced" /\ firedBurst >= 2 /\ Pending(timers, "debounced") = 0

C8_SelectorFallback ==
  /\ \A g \in DOMAIN queries :
       LET q == queries[g]
           k == Len(q.queried)
       IN  /\ k \in 1..Len(q.selectors)
           /\ q.queried = SubSeq(q.selectors, 1, k)
           /\ \A i \in 1..(k - 1) : q.matches[i] = <<>>
           /\ IF q.matches[k] = <<>>
              THEN k = Len(q.selectors) /\ q.nodes = <<>>
              ELSE q.nodes = q.matches[k]
           /\ q.wrote \subseteq SeqToSet(q.nodes)
  /\ \A i \in Entries :
       log[i].by = "exact" =>
         \E g \in DOMAIN queries :
           {log[i].node, log[i].host} \cap SeqToSet(queries[g].nodes) # {}

\* a group whose first selector matched nothing was annotated through its
\* second selector
C8_Witness ==
  \E g \in DOMAIN queries :
    /\ Len(queries[g].queried) = 2
    /\ queries[g].matches[1] = <<>>
    /\ queries[g].nodes # <<>>
    /\ queries[g].wrote # {}

\* the handlers that run the full pass
PassRuns == {"load", "debounced", "click"}

\* no sign, '+' or '-'
Signs == {<<>>, <<"+">>, <<"-">>}

\* numeric tokens
NumericTokens == {<<"2","5">>, <<"3","0">>, <<"1">>, <<"2">>}

\* the lists of one or two tokens
TokenLists == UNION {[1..k -> NumericTokens] : k \in 1..2}

\* the number of placeholders '#' of a template
RECURSIVE Placeholders(_)
Placeholders(tpl) ==
  IF tpl = <<>> THEN 0
  ELSE (IF Head(tpl) = "#" THEN 1 ELSE 0) + Placeholders(Tail(tpl))

\* a skeleton with its i-th '#' replaced by the i-th token
RECURSIVE Fill(_, _)
Fill(skeleton, tokens) ==
  IF skeleton = <<>> THEN <<>>
  ELSE IF Head(skeleton) = "#" /\ tokens # <<>>
       THEN Head(tokens) \o Fill(Tail(skeleton), Tail(tokens))
       ELSE <<Head(skeleton)>> \o Fill(Tail(skeleton), tokens)

\* txt is the skeleton of template t with numeric tokens for its '#', after
\* the sign
InstanceOf(txt, t, sign, tokens) ==
  /\ Len(tokens) = Placeholders(config.templateMap[t][1])
  /\ txt = sign \o Fill(config.templateMap[t][1], tokens)

\* txt is an instance of a template declared before template t
Shadowed(txt, t) ==
  \E u \in 1..(t - 1), sign \in Signs, tokens \in TokenLists :
    InstanceOf(txt, u, sign, tokens)

\* the unmarked list items of the document
OpenItems == {el \in Attached(dom) : Matches(dom, el, "ul li") /\ el \notin translatedSet}

\* C9 as stated (template substitution): a full pass turns the text of every
\* unmarked list item that is an instance of a template, with numeric tokens
\* for the placeholders after an optional sign, into the translation of that
\* template with the tokens for its placeholders, after the sign.
C9_EveryTemplate ==
  [][ lastRun' \in PassRuns =>
        \A el \in OpenItems, t \in DOMAIN config.templateMap,
           sign \in Signs, tokens \in TokenLists :
          InstanceOf(Trim(TextContent(dom, el)), t, sign, tokens)
            => /\ el \in DOMAIN dom'
               /\ TextContent(dom', el) = sign \o Fill(config.templateMap[t][2], tokens)
    ]_vars

\* C9 amended (template substitution by the first template that matches): the
\* same, for a template no earlier-declared template shadows on that text.
C9_FirstTemplate ==
  [][ lastRun' \in PassRuns =>
        \A el \in OpenItems, t \in DOMAIN config.templateMap,
           sign \in Signs, tokens \in TokenLists :
          (/\ InstanceOf(Trim(TextContent(dom, el)), t, sign, tokens)
           /\ ~Shadowed(Trim(TextContent(dom, el)), t))
            => /\ el \in DOMAIN dom'
               /\ TextContent(dom', el) = sign \o Fill(config.templateMap[t][2], tokens)
    ]_vars

\* a pass has rewritten '+25 to Life' by the template '+# to Life', '30 to
\* Life' by '# to Life' and '1-2 Dmg' by the template of two placeholders
C9_Witness ==
  /\ lastRun \in PassRuns
  /\ config.templateMap[1][1] = tplPlusHashToLife
  /\ \E i, j, k \in Entries :
       /\ log[i].by = "template" /\ log[i].before = tPlus25ToLife
       /\ log[i].after = <<"+","2","5"," ","{ming}">>
       /\ log[j].by = "template" /\ log[j].before = t30ToLife
       /\ log[j].after = <<"3","0"," ","{ming}">>
       /\ log[k].by = "template" /\ log[k].before = t1to2Dmg
       /\ log[k].after = <<"1","~","2"," ","{shang}">>

\* the key occurs in s at position i as a whole word
StandaloneAt(s, key, i) ==
  /\ MatchAt(s, key, i)
  /\ (i = 1 \/ s[i - 1] \notin WordChars)
  /\ (i + Len(key) > Len(s) \/ s[i + Len(key)] \notin WordChars)

StandaloneIn(s, key) == \E i \in 1..Len(s) : StandaloneAt(s, key, i)

\* the keys of the substring map that are words or phrases: they start and
\* end with a word character, so that \b stands at both of their ends
FixedKeys ==
  {key \in {config.fixedTextMap[i][1] : i \in DOMAIN config.fixedTextMap} :
     key # <<>> /\ key[1] \in WordChars /\ key[Len(key)] \in WordChars}

\* C10 (word-boundary safety): a write of the substring strategy changes a
\* text only if a key of the substring map occurs in it as a whole word, and
\* then leaves no whole-word occurrence of a key; 'Str 10' becomes the
\* translation of 'Str' followed by ' 10'; no write changes 'Strength 10';
\* and a full pass leaves no text node with a whole-word occurrence of a key
\* that is not a key of the exact map.
C10_WordBoundary ==
  /\ \A i \in Entries :
       log[i].by = "substring" =>
         /\ (\A key \in FixedKeys : ~StandaloneIn(log[i].before, key))
              => log[i].after = log[i].before
         /\ \A key \in FixedKeys : ~StandaloneIn(log[i].after, key)
         /\ log[i].before = tStr10 => log[i].after = fixedGet(tStr) \o <<" ","1","0">>
  /\ \A i \in Entries : log[i].before = tStrength10 => log[i].after = tStrength10
  /\ quiet =>
       \A n \in Attached(dom), key \in FixedKeys :
         (IsTextNode(dom, n) /\ exactGet(key) = <<>>) => ~StandaloneIn(dom[n].val, key)

\* a pass has rewritten 'Str 10' and left 'Strength 10' as it was
C10_Witness ==
  /\ \E i \in Entries :
       log[i].by = "substring" /\ log[i].before = tStr10 /\ log[i].after # tStr10
  /\ \E n \in Attached(dom) : IsTextNode(dom, n) /\ dom[n].val = tStrength10

----------------------------------------------------------------------------
(* Expansion Watcher *)

\* the disclosure icons of the document
Triangles(d) ==
  {n \in Attached(d) : Matches(d, n, "img[src*=triangle-], span[style*=triangle-]")}

\* the region a disclosure icon reveals: the row that follows it
Region(d, icon) ==
  LET kids == d[ParentOf(d, icon)].kids
      i    == CHOOSE k \in 1..Len(kids) : kids[k] = icon
  IN  IF i < Len(kids) /\ d[kids[i + 1]].tag = "div"
      THEN SeqToSet(Preorder(d, kids[i + 1]))
      ELSE {}

\* the step expands the icon: it was in the document, not expanded, and is
\* expanded now
Expands(icon) ==
  /\ icon \in Triangles(dom)
  /\ ~isUp(dom, icon)
  /\ icon \in DOMAIN dom'
  /\ isUp(dom', icon)

\* C11 (expansion-triggered coverage): the expansion of a disclosure icon
\* that was in the document before schedules a deferred re-annotation of its
\* own, whatever else has happened, and once a deferred re-annotation has run
\* no text node of the region of an expanded icon is a bare key of the exact
\* map.
C11_ExpansionAnnotates ==
  [][ /\ \A icon \in DOMAIN dom :
           Expands(icon) => Pending(timers', "gems") = Pending(timers, "gems") + 1
      /\ lastRun' = "gems" =>
           \A icon \in Triangles(dom') : \A n \in Region(dom', icon) :
             (isUp(dom', icon) /\ IsTextNode(dom', n))
               => exactGet(Trim(dom'[n].val)) = <<>> ]_vars

----------------------------------------------------------------------------
(* Fallback walk *)

\* the evolutions that have the text-node walk
HasFallback == variant \in {"part_000", "part_001"}

\* C12 (eventual coverage by the fallback): where there is a text-node walk,
\* once the load event has fired and no deferred call is pending, no text
\* node of the document outside of an editable region has a trimmed value
\* that is a bare key of the exact map, whichever way the page gave it its
\* value.
C12_FallbackCovers ==
  (HasFallback /\ loaded /\ timers = <<>>) =>
    \A n \in Attached(dom) :
      (IsTextNode(dom, n) /\ ~InEditable(dom, n)) => exactGet(Trim(dom[n].val)) = <<>>

----------------------------------------------------------------------------
(* Frame *)

\* C13 (non-text content is never modified): a full pass removes, replaces
\* or moves no element: every element of the document is still attached
\* under the same parent once the pass has run.
C13_ElementsStay ==
  [][ lastRun' \in PassRuns =>
        \A el \in Attached(dom) :
          IsElement(dom, el) =>
            /\ el \in DOMAIN dom'
            /\ ParentOf(dom', el) = ParentOf(dom, el) ]_vars

----------------------------------------------------------------------------
(* Failures *)

\* C14 (no fatal error): whatever the dictionary holds, a full pass ends by
\* no exception, so that every strategy of the pass has run.
C14_PassCompletes ==
  lastRun \in PassRuns => (ran # <<>> /\ ran[Len(ran)] # "error")

----------------------------------------------------------------------------
(* Order of the strategies *)

\* a sequence without the repetitions of an element next to itself
RECURSIVE Squash(_)
Squash(q) ==
  IF Len(q) < 2 THEN q
  ELSE IF q[1] = q[2] THEN Squash(Tail(q))
  ELSE <<q[1]>> \o Squash(Tail(q))

IsPrefix(a, b) == Len(a) <= Len(b) /\ SubSeq(b, 1, Len(a)) = a

StrategyOrder == <<"exact", "template", "substring", "tooltip", "fallback">>

\* the place of a strategy in the order
Rank(by) == CHOOSE k \in 1..Len(StrategyOrder) : StrategyOrder[k] = by

\* the strategies of a full pass of the running evolution
OrderOfVariant ==
  IF HasFallback THEN StrategyOrder ELSE SubSeq(StrategyOrder, 1, 4)

\* the groups of selectors of the running evolution
GroupsOfVariant == IF variant = "content" THEN selectorConfig ELSE selectorConfig_p0

----------------------------------------------------------------------------
(* Exact-phrase annotation *)

\* the elements the groups of selectors of the last handler marked
MarkedByGroups == UNION {queries[i].wrote : i \in DOMAIN queries}

\* C16 (exact-phrase annotation marks exactly what it writes): in a full
\* pass the elements selector-scoped annotation marks are the elements it
\* wrote to, and each of its writes replaces a value that is a key of the
\* exact map, on an element that was not marked, by 'translation (value)'.
C16_MarksWhatItWrites ==
  lastRun \in PassRuns =>
    /\ MarkedByGroups = {log[i].target : i \in {k \in Entries : log[k].by = "exact"}}
    /\ \A i \in Entries :
         log[i].by = "exact" =>
           LET val == Trim(log[i].before)
           IN  /\ exactGet(val) # <<>>
               /\ ~Includes(val, exactGet(val))
               /\ log[i].after = Annotated(exactGet(val), val)

----------------------------------------------------------------------------
(* Substring strategy *)

\* C17 (substring strategy marking): the substring strategy rewrites and
\* marks an element or text node only if a substitution occurred, that is,
\* the text it writes differs from the text it found, and the text it writes
\* has no whole-word occurrence of a key left.
C17_SubstitutionOccurred ==
  \A i \in Entries :
    log[i].by = "substring" =>
      /\ log[i].after # log[i].before
      /\ \A key \in FixedKeys : ~StandaloneIn(log[i].after, key)

----------------------------------------------------------------------------
(* Editable regions *)

\* C18 (editable regions are untouched): in the latest evolution no handler
\* writes a text or an attribute of a node that is in a foreign editable
\* region, that is, under an element that carries data-lexical-editor,
\* data-lexical-decorator or data-lexical-text.
C18_EditableUntouched ==
  variant = "part_001" => \A i \in Entries : ~log[i].editable

----------------------------------------------------------------------------
(* Expansion Watcher: the icons *)

\* C19 (state machine of the Expansion Watcher): whatever the number of
\* calls of observeTriangles, an icon has at most one attribute observer, it
\* is in the set of watched icons exactly when it has one, and a watched icon
\* that stays alive stays watched.
C19_WatchedOnce ==
  [][ /\ \A icon \in DOMAIN triangleObservers' : triangleObservers'[icon] <= 1
      /\ DOMAIN triangleObservers' = observedTriangles'
      /\ \A icon \in observedTriangles :
           icon \in DOMAIN dom' => icon \in observedTriangles' ]_vars

\* observeTriangles has run on load and again after a click, and every icon
\* of the document is watched
C19_Witness ==
  /\ loaded
  /\ lastRun = "click"
  /\ Triangles(dom) # {}
  /\ \A icon \in Triangles(dom) :
       icon \in observedTriangles /\ triangleObservers[icon] = 1

----------------------------------------------------------------------------
(* Expansion Watcher: the deferred re-annotation *)

\* The step changes src or style of a watched icon: if the icon is expanded
\* now, one more call of translateSupportGems is pending, due in 100 ms; if
\* it is not, no call was added and the engine wrote nothing.
ToggleSchedules ==
  \A icon \in observedTriangles :
    (lastRun' = "page" /\ icon \in DOMAIN dom' /\ isUp(dom', icon) # isUp(dom, icon)) =>
      IF isUp(dom', icon)
      THEN Lefts(timers', "gems") = Append(Lefts(timers, "gems"), GemDelay)
      ELSE Lefts(timers', "gems") = Lefts(timers, "gems") /\ log' = <<>>

\* the text elements of the rows of support gems: for each gem icon, the
\* first div, span or p inside the closest div around the icon
GemTexts(d) ==
  {el \in Attached(d) :
     \E g \in Attached(d) :
       /\ Matches(d, g, "img[width=40], img[height=40], img[src*=SupportGem]")
       /\ closestDiv(d, g) # 0
       /\ el = querySelector(d, closestDiv(d, g), "div, span, p")}

----------------------------------------------------------------------------
(* Template strategy: tie-break *)

\* the list items of the document
Items(d) == {el \in Attached(d) : Matches(d, el, "ul li")}

\* the compiled matchers whose pattern matches txt
Matching(txt) ==
  {k \in DOMAIN compiledTemplates : RegexMatch(compiledTemplates[k].regex, txt).ok}

\* the one of them declared first
Earliest(txt) == CHOOSE k \in Matching(txt) : \A j \in Matching(txt) : k <= j

\* the writes of the template strategy to el in the handler that ends the step
TemplateWrites(el) ==
  {k \in DOMAIN log' : log'[k].by = "template" /\ log'[k].node = el}

\* C21 (template tie-break): in a full pass the template strategy writes an
\* unmarked list item whose trimmed text matches a matcher exactly once, by
\* the matcher declared first among those that match, and marks it; it
\* writes no item that is marked and no item no matcher matches, and does
\* not mark the latter.
C21_FirstMatcherWins ==
  [][ lastRun' \in PassRuns =>
        \A el \in Items(dom) :
          LET txt == Trim(TextContent(dom, el))
          IN  IF el \notin translatedSet /\ Matching(txt) # {}
              THEN /\ Cardinality(TemplateWrites(el)) = 1
                   /\ \A k \in TemplateWrites(el) :
                        log'[k].after =
                          TemplateOutput(compiledTemplates[Earliest(txt)].translation,
                                         RegexMatch(compiledTemplates[Earliest(txt)].regex,
                                                    txt).caps)
                   /\ el \in translatedSet'
              ELSE /\ TemplateWrites(el) = {}
                   /\ (el \notin translatedSet /\ el \in translatedSet')
                        => \E k \in DOMAIN log' : log'[k].node = el ]_vars

\* a pass has written an item two matchers match by the one declared first,
\* and has left alone and unmarked an item no matcher matches
C21_Witness ==
  /\ lastRun \in PassRuns
  /\ \E k \in Entries :
       /\ log[k].by = "template"
       /\ Cardinality(Matching(Trim(log[k].before))) >= 2
       /\ log[k].after =
            TemplateOutput(compiledTemplates[Earliest(Trim(log[k].before))].translation,
                           RegexMatch(compiledTemplates[Earliest(Trim(log[k].before))].regex,
                                      Trim(log[k].before)).caps)
  /\ \E el \in Items(dom) :
       el \notin translatedSet /\ Matching(Trim(TextContent(dom, el))) = {}

----------------------------------------------------------------------------
(* Template Compiler: a template without a placeholder *)

\* the matchers compiled from a template that has no '#'
Literals == {k \in DOMAIN compiledTemplates : Placeholders(compiledTemplates[k].regex) = 0}

\* the texts the matchers are tried on: "Ice" as it is, after a sign, in
\* other cases, with a character more or less, and the texts of the list
\* items of the document
ProbeTexts ==
  { tIce, <<"+">> \o tIce, <<"-">> \o tIce, <<"i","c","e">>, <<"I","C","E">>,
    tMinusIceLower, tIces, <<"I","c">>, <<"+","+">> \o tIce, tIce \o <<"+">>,
    <<" ">> \o tIce, <<"I",".","e">>, tFire, <<>> }
  \cup {Trim(TextContent(dom, el)) : el \in Items(dom)}

\* two characters the 'i' flag takes for the same
SameLetter(a, b) ==
  a = b \/ \E i \in 1..26 : {a, b} = {UpperSeq[i], LowerSeq[i]}

\* txt is the literal text tpl up to the case of its letters, after sign
LiteralAfter(txt, tpl, sign) ==
  /\ Len(txt) = Len(sign) + Len(tpl)
  /\ SubSeq(txt, 1, Len(sign)) = sign
  /\ \A i \in 1..Len(tpl) : SameLetter(txt[Len(sign) + i], tpl[i])

\* C22 as stated (zero-placeholder template): the matcher of a template
\* without '#' accepts the inputs equal to the literal text of the template
\* and no other input.
C22_LiteralOnly ==
  \A k \in Literals, txt \in ProbeTexts :
    RegexMatch(compiledTemplates[k].regex, txt).ok <=> txt = compiledTemplates[k].regex

\* C22 as amended: the matcher of a template without '#' accepts the inputs
\* that are the literal text of the template up to the case of its letters,
\* after no sign, '+' or '-', and no other input; the template strategy
\* writes for such an input the translation after the sign.
C22_LiteralUpToCaseAndSign ==
  /\ \A k \in Literals, txt \in ProbeTexts :
       RegexMatch(compiledTemplates[k].regex, txt).ok
         <=> \E sign \in Signs : LiteralAfter(txt, compiledTemplates[k].regex, sign)
  /\ \A i \in Entries :
       (log[i].by = "template" /\ Earliest(Trim(log[i].before)) \in Literals) =>
         \E sign \in Signs :
           /\ LiteralAfter(Trim(log[i].before),
                           compiledTemplates[Earliest(Trim(log[i].before))].regex, sign)
           /\ log[i].after =
                sign \o compiledTemplates[Earliest(Trim(log[i].before))].translation

\* a pass has written '-ice' by the template 'Ice' and has left 'Ices' as it
\* was
C22_Witness ==
  /\ lastRun \in PassRuns
  /\ \E i \in Entries :
       /\ log[i].by = "template"
       /\ log[i].before = tMinusIceLower
       /\ log[i].after = <<"-">> \o zhBing
  /\ \E n \in Attached(dom) : IsTextNode(dom, n) /\ dom[n].val = tIces

----------------------------------------------------------------------------
(* Tooltip strategy *)

\* the keys of the substring map
OwnFixedKeys == {config.fixedTextMap[i][1] : i \in DOMAIN config.fixedTextMap}

\* the translation of a key of the substring map
OwnFixed(key) ==
  config.fixedTextMap[CHOOSE i \in DOMAIN config.fixedTextMap :
                        config.fixedTextMap[i][1] = key][2]

\* C23 (tooltip-root annotation): the tooltip strategy writes an element
\* only if the element is unmarked and its trimmed text is a key of the exact
\* map, and then writes 'translation (original)', or else is a key of the
\* substring map, and then writes the translation of that key; an element
\* whose text is no key of either map is left as it is; and the strategy run
\* again right after a full pass writes nothing.
C23_TooltipAnnotation ==
  /\ \A i \in Entries :
       log[i].by = "tooltip" =>
         LET txt == Trim(log[i].before)
         IN  /\ ~log[i].marked
             /\ txt # <<>>
             /\ IF txt \in DOMAIN config.exactMap
                THEN log[i].after = Annotated(config.exactMap[txt], txt)
                ELSE txt \in OwnFixedKeys /\ log[i].after = OwnFixed(txt)
  /\ quiet => translateTippyRootText(Begin).log = <<>>

----------------------------------------------------------------------------
(* The two mark sets *)

\* what a run of strategies wrote, and what it marked
Outcome(st) ==
  [writes   |-> [i \in DOMAIN st.log |-> <<st.log[i].node, st.log[i].by, st.log[i].after>>],
   elements |-> st.translatedSet,
   nodes    |-> st.translatedTextNodes]

\* the strategies of the running evolution that walk the text nodes
Walks(st) ==
  CASE variant = "part_000" -> translateFallback_p0(st)
    [] variant = "part_001" -> translateFallback_p1(translateFixedText_p1(st))
    [] OTHER -> st

\* the strategies of the running evolution that work on whole elements
ElementStrategies(st) ==
  CASE variant = "part_000" ->
         translateSupportGems(
           translateTippyRootText(
             translateFixedText_p0(
               translateItemAttributes(ForEach(groupStep_p0, st, selectorConfig_p0)))))
    [] variant = "part_001" ->
         translateSupportGems(
           translateTippyRootText(
             translateItemAttributes(ForEach(groupStep_p1, st, selectorConfig_p0))))
    [] OTHER -> translateAll(st)

\* C24 (independent trackers): in every state the text-node walks write and
\* mark the same text nodes whether or not any element is in the element
\* mark set, and the strategies that work on elements write and mark the
\* same elements whether or not any text node is in the text-node mark set.
C24_TrackersIndependent ==
  /\ LET with    == Walks(Begin)
         without == Walks([Begin EXCEPT !.translatedSet = {}])
     IN  /\ Outcome(with).writes = Outcome(without).writes
         /\ Outcome(with).nodes = Outcome(without).nodes
  /\ LET with    == ElementStrategies(Begin)
         without == ElementStrategies([Begin EXCEPT !.translatedTextNodes = {}])
     IN  /\ Outcome(with).writes = Outcome(without).writes
         /\ Outcome(with).elements = Outcome(without).elements

\* the walk of a pass has written a text node of an element that is in the
\* element mark set
C24_Witness ==
  /\ lastRun \in PassRuns
  /\ \E i \in Entries :
       /\ log[i].by = "fallback"
       /\ log[i].hostMarked
       /\ log[i].node \in translatedTextNodes
       /\ log[i].host \in translatedSet

----------------------------------------------------------------------------
(* Lookup miss *)

\* C25 (lookup miss changes nothing): a full pass changes a text or an
\* attribute only if its trimmed value is a key of the exact map, or a
\* template matcher matches it, or a key of the substring map occurs in it
\* as a whole word; a text such as 'constructor', which is no key, stays as
\* it is.
C25_MissChangesNothing ==
  lastRun \in PassRuns =>
    \A i \in Entries :
      log[i].after # log[i].before =>
        \/ Trim(log[i].before) \in DOMAIN config.exactMap
        \/ Matching(Trim(log[i].before)) # {}
        \/ \E key \in OwnFixedKeys : StandaloneIn(log[i].before, key)

----------------------------------------------------------------------------
(* Dictionary Store *)

\* the sources of the exact map, in the order they are merged
ExactSources == <<window.Others, window.legendaryItems, window.passives, window.Skills>>

\* the sources that have the key
Having(key) == {i \in DOMAIN ExactSources : key \in DOMAIN ExactSources[i]}

\* the last of them
LastHaving(key) == CHOOSE i \in Having(key) : \A j \in Having(key) : j <= i

\* C26 (Dictionary Store): the keys of the exact map are the keys of Others,
\* legendaryItems, passives and Skills, each with the translation of the
\* last of these sources that has it; the template map and the substring map
\* are the ones loaded; and no step changes the maps or the compiled
\* matchers.
C26_MergedOnce ==
  [][ /\ DOMAIN config.exactMap = UNION {DOMAIN ExactSources[i] : i \in DOMAIN ExactSources}
      /\ \A key \in DOMAIN config.exactMap :
           config.exactMap[key] = ExactSources[LastHaving(key)][key]
      /\ config.templateMap = window.templateMap
      /\ config.fixedTextMap = window.fixedTextMap
      /\ config' = config
      /\ compiledTemplates' = compiledTemplates
      /\ window' = window ]_vars

\* a pass that followed a mutation of the page has annotated a text by the
\* translation of Skills, for a key Others has with another translation
C26_Witness ==
  /\ lastRun = "debounced"
  /\ \E i \in Entries :
       LET key == Trim(log[i].before)
       IN  /\ key \in DOMAIN window.Others \cap DOMAIN window.legendaryItems
           /\ window.Others[key] # window.legendaryItems[key]
           /\ log[i].after = Annotated(window.legendaryItems[key], key)

----------------------------------------------------------------------------
(* Convergence *)

\* no call is pending and a full pass would write nothing
Settled == timers = <<>> /\ Pass(Begin).log = <<>>

\* C27 (convergence): in every run in which the page, the user and the
\* icons stop at some time, so that from then on only the engine acts, the
\* engine comes to rest in a state with no pending call in which a further
\* full pass would write nothing.
C27_Converges == (<>[][EngineNext]_vars) => <>[]Settled

----------------------------------------------------------------------------
(* No lost trigger *)

\* the body observer was notified and no debounced pass has started since
MutationUnanswered == burst > 0 /\ lastRun # "debounced"

\* the user has just clicked
ClickUnanswered == lastRun = "clickEvent"

\* C28 (no lost trigger): in the runs in which the browser goes on, after
\* every notification of the body observer a debounced full pass starts at
\* some later time, whether or not a pass was pending when the notification
\* arrived, and after every click the deferred full pass of a click starts
\* at some later time.
C28_NoLostTrigger ==
  /\ MutationUnanswered ~> (lastRun = "debounced")
  /\ ClickUnanswered ~> (lastRun = "click")

\* a debounced pass has started after a burst in which a notification
\* arrived while a pass was pending, and a click has been answered
C28_Witness ==
  /\ lastRun = "debounced" /\ firedBurst >= 2 /\ mutations >= 1
  /\ PendingClicks = 0

====
